---------------------------- MODULE Spec2Model ----------------------------
(***************************************************************************)
(* ta-agi-doorbell: an AGI service that authenticates each request with a  *)
(* SHA1 digest handshake and then pulses a door relay over CoE/UDP.        *)
(*                                                                         *)
(* Strings are sequences of one-character strings.  Option values are      *)
(* sequences of length 0 (None) or 1 (Some).  Result values are records    *)
(* with an "ok" flag.                                                      *)
(***************************************************************************)
EXTENDS Integers, Sequences, FiniteSets, TLC

(***************************************************************************)
(* Bounds of the model.                                                    *)
(***************************************************************************)
\* number of AGI sessions the protocol layer serves concurrently
NumReq == 2
\* width in bytes of the digest the stand-in hash produces (SHA-1: 20)
DigestLen == 1

(***************************************************************************)
(* Program constants.                                                      *)
(***************************************************************************)
HoldSecs == 15
DefaultCmiPort == 5422
DefaultListenPort == 4573
U8Max == 255
NonceSecsBytes == 8
NonceMillisBytes == 4
NonceRandBytes == 8

None == << >>
Some(x) == << x >>
IsSome(o) == Len(o) = 1
Unwrap(o) == o[1]

Ok(v) == [ok |-> TRUE, val |-> v]
Err(e) == [ok |-> FALSE, val |-> e]

(***************************************************************************)
(* The hex crate: encode writes two lowercase digits per byte, high nibble *)
(* first; decode fails on an odd length or on a character that is no hex   *)
(* digit, and reads both letter cases.                                     *)
(***************************************************************************)
HexDigits == << "0", "1", "2", "3", "4", "5", "6", "7",
                "8", "9", "a", "b", "c", "d", "e", "f" >>

RECURSIVE hex_encode(_)
hex_encode(bytes) ==
    IF bytes = << >> THEN << >>
    ELSE << HexDigits[(Head(bytes) \div 16) + 1],
            HexDigits[(Head(bytes) % 16) + 1] >> \o hex_encode(Tail(bytes))

HexVal(c) ==
    CASE c = "0" -> 0  [] c = "1" -> 1  [] c = "2" -> 2  [] c = "3" -> 3
      [] c = "4" -> 4  [] c = "5" -> 5  [] c = "6" -> 6  [] c = "7" -> 7
      [] c = "8" -> 8  [] c = "9" -> 9
      [] c = "a" -> 10 [] c = "b" -> 11 [] c = "c" -> 12
      [] c = "d" -> 13 [] c = "e" -> 14 [] c = "f" -> 15
      [] c = "A" -> 10 [] c = "B" -> 11 [] c = "C" -> 12
      [] c = "D" -> 13 [] c = "E" -> 14 [] c = "F" -> 15
      [] OTHER -> -1

RECURSIVE HexPairs(_)
HexPairs(s) ==
    IF s = << >> THEN << >>
    ELSE << HexVal(s[1]) * 16 + HexVal(s[2]) >> \o HexPairs(SubSeq(s, 3, Len(s)))

hex_decode(s) ==
    IF Len(s) % 2 # 0 THEN Err("OddLength")
    ELSE IF \E i \in 1..Len(s) : HexVal(s[i]) < 0 THEN Err("InvalidHexCharacter")
    ELSE Ok(HexPairs(s))

(***************************************************************************)
(* Character codes of the characters that are hashed.                      *)
(***************************************************************************)
as_bytes_char(c) ==
    CASE c = ":" -> 58
      [] c = "s" -> 115 [] c = "t" -> 116 [] c = "o" -> 111 [] c = "p" -> 112
      [] HexVal(c) >= 0 /\ HexVal(c) <= 9 -> 48 + HexVal(c)
      [] OTHER -> 87 + HexVal(c)

as_bytes(s) == [i \in 1..Len(s) |-> as_bytes_char(s[i])]

(***************************************************************************)
(* The sha1 crate, replaced by a stand-in: a deterministic function of the *)
(* bytes fed to the hasher in order, producing DigestLen bytes.  Its bytes *)
(* are taken from DigestTable so that their hex digits stay within the     *)
(* alphabet the caller's replies are drawn from.                           *)
(***************************************************************************)
DigestTable == << 10, 175, 240, 160 >>

RECURSIVE Fold(_, _)
Fold(bytes, acc) ==
    IF bytes = << >> THEN acc
    ELSE Fold(Tail(bytes), (acc * 31 + Head(bytes)) % 251)

Sha1(bytes) ==
    [i \in 1..DigestLen |->
        DigestTable[((Fold(bytes, 7) + i) % Len(DigestTable)) + 1]]

(***************************************************************************)
(* create_nonce: 8 bytes of seconds and 4 bytes of milliseconds, both      *)
(* little-endian, then 8 random bytes; hex-encoded.                        *)
(***************************************************************************)
RECURSIVE to_le_bytes(_, _)
to_le_bytes(x, n) ==
    IF n = 0 THEN << >>
    ELSE << x % 256 >> \o to_le_bytes(x \div 256, n - 1)

create_nonce_no_fill(secs, millis, fill) ==
    hex_encode(to_le_bytes(secs, NonceSecsBytes)
               \o to_le_bytes(millis, NonceMillisBytes)
               \o [i \in 1..NonceRandBytes |-> 0])

create_nonce(secs, millis, fill) ==
    hex_encode(to_le_bytes(secs, NonceSecsBytes)
               \o to_le_bytes(millis, NonceMillisBytes)
               \o fill)

\* what SystemTime::now() and ThreadRng hand to create_nonce
NowSecs == {1730000000}
NowMillis == {0, 258}
RandFills == { [i \in 1..NonceRandBytes |-> 0],
               [i \in 1..NonceRandBytes |-> IF i = 1 THEN 171 ELSE 0] }


(***************************************************************************)
(* config.rs: the on-disk data and its fallible conversion.                *)
(***************************************************************************)
checked_sub_wrapping(a, b) == Some((a - b + U8Max + 1) % (U8Max + 1))
checked_sub(a, b) == IF a - b < 0 THEN None ELSE Some(a - b)

unwrap_or(o, default) == IF IsSome(o) THEN Unwrap(o) ELSE default

\* impl TryFrom<DoorMappingData> for DoorMapping
try_from_DoorMappingData(value) ==
    LET sub == checked_sub(value.pdo, 1) IN
    IF ~IsSome(sub) THEN Err("PdoZeroError")
    ELSE Ok([door_name    |-> value.door_name,
             cmi_address  |-> value.cmi_address,
             cmi_port     |-> unwrap_or(value.cmi_port, DefaultCmiPort),
             virtual_node |-> value.virtual_node,
             pdo          |-> Unwrap(sub)])

\* impl TryFrom<CmiConfigData> for CmiConfig: map, then collect into a Result
RECURSIVE SelectOk(_)
SelectOk(conv) ==
    IF conv = << >> THEN << >>
    ELSE (IF Head(conv).ok THEN << Head(conv).val >> ELSE << >>)
         \o SelectOk(Tail(conv))

try_from_CmiConfigData_skipping(value) ==
    LET conv == [i \in 1..Len(value.door_mappings) |->
                    try_from_DoorMappingData(value.door_mappings[i])] IN
    Ok([door_mappings |-> SelectOk(conv)])

try_from_CmiConfigData(value) ==
    LET conv == [i \in 1..Len(value.door_mappings) |->
                    try_from_DoorMappingData(value.door_mappings[i])] IN
    IF \E i \in 1..Len(conv) : ~conv[i].ok THEN Err("PdoZeroError")
    ELSE Ok([door_mappings |-> [i \in 1..Len(conv) |-> conv[i].val]])

\* impl From<AgiConfigData> for AgiConfig
from_AgiConfigData(value) ==
    [listen_address |-> value.listen_address,
     listen_port    |-> unwrap_or(value.listen_port, DefaultListenPort),
     digest_secret  |-> value.digest_secret]

\* impl TryFrom<ConfigData> for Config
try_from_ConfigData(value) ==
    LET cmi == try_from_CmiConfigData(value.cmi) IN
    IF ~cmi.ok THEN Err(cmi.val)
    ELSE Ok([agi |-> from_AgiConfigData(value.agi), cmi |-> cmi.val])

\* ConfigData::create: read the file, then parse it as toml
ConfigData_create(file) ==
    IF file.kind = "unreadable" THEN Err("Io")
    ELSE IF file.kind = "malformed" THEN Err("Toml")
    ELSE Ok(file.data)

\* Config::create, with the From conversions into ConfigError
Config_create(file) ==
    LET data == ConfigData_create(file) IN
    IF ~data.ok THEN Err(data.val)
    ELSE LET cfg == try_from_ConfigData(data.val) IN
         IF ~cfg.ok THEN Err("PdoZero") ELSE Ok(cfg.val)

\* CmiConfig::get_cmi_for_door: the first mapping with that exact name
get_cmi_for_door_fallback(cmi, name) ==
    LET hits == {i \in 1..Len(cmi.door_mappings) :
                    cmi.door_mappings[i].door_name = name} IN
    IF hits = {} THEN Some(cmi.door_mappings[1])
    ELSE Some(cmi.door_mappings[CHOOSE i \in hits : \A j \in hits : i <= j])

get_cmi_for_door_last(cmi, name) ==
    LET hits == {i \in 1..Len(cmi.door_mappings) :
                    cmi.door_mappings[i].door_name = name} IN
    IF hits = {} THEN None
    ELSE Some(cmi.door_mappings[CHOOSE i \in hits : \A j \in hits : i >= j])

get_cmi_for_door(cmi, name) ==
    LET hits == {i \in 1..Len(cmi.door_mappings) :
                    cmi.door_mappings[i].door_name = name} IN
    IF hits = {} THEN None
    ELSE Some(cmi.door_mappings[CHOOSE i \in hits : \A j \in hits : i <= j])

\* DoorMapping::payload_with_value: the codec's (node, index, value) triple
payload_with_value(mapping, value) ==
    [node |-> mapping.virtual_node, pdo |-> mapping.pdo, value |-> value]

\* DoorMapping::cmi_host: "address:port"
cmi_host(mapping) == << mapping.cmi_address, ":", mapping.cmi_port >>

(***************************************************************************)
(* The config files the process may find on disk.                          *)
(***************************************************************************)
MappingData(name, addr, port, node, pdo) ==
    [door_name |-> name, cmi_address |-> addr, cmi_port |-> port,
     virtual_node |-> node, pdo |-> pdo]

FileWith(secret, mappings) ==
    [kind |-> "ok",
     data |-> [agi |-> [listen_address |-> "0.0.0.0",
                        listen_port    |-> None,
                        digest_secret  |-> secret],
               cmi |-> [door_mappings |-> mappings]]]

\* what a file that cannot be read or parsed stands for: no usable data
NoData == FileWith(<< >>, << >>).data

Front == MappingData("front", "10.0.0.5", None, 2, 3)
Side == MappingData("side", "10.0.0.6", Some(5442), 7, 1)
FrontAgain == MappingData("front", "10.0.0.6", Some(5442), 7, U8Max)
BackZero == MappingData("back", "10.0.0.6", None, 7, 0)

DiskFiles ==
    { [kind |-> "unreadable", data |-> NoData],
      [kind |-> "malformed", data |-> NoData],
      FileWith(<< "t", "o", "p" >>, << Front, Side >>),
      FileWith(<< "s", "o", "s" >>, << Front, FrontAgain >>),
      FileWith(<< "t", "o", "p" >>, << Front, BackZero >>) }

\* one mapping for every value the u8 field pdo can hold
PdoFiles ==
    { FileWith(<< "t", "o", "p" >>, << MappingData("front", "10.0.0.5", None, 2, p) >>) :
        p \in 0..U8Max }

\* door names a request path may capture
RequestNames == {"front", "side", "back", "Front", "front "}

\* errors the operating system may return from send_to
IoErrors == {"NetworkUnreachable", "PermissionDenied"}

(***************************************************************************)
(* main.rs: errors and their Display texts.                                *)
(***************************************************************************)
AGIError(tag, msg) == [tag |-> tag, msg |-> msg]

InnerError(e) == AGIError("InnerError", << e >>)
ClientSideError(msg) == AGIError("ClientSideError", msg)
Not200 == AGIError("Not200", << >>)
\* what a failed send_command returns through the ? operator
ConnectionError == AGIError("ConnectionError", << >>)

CannotBindSocket == [kind |-> "CannotBindSocket", io |-> "none"]
CannotSendCoe(x) == [kind |-> "CannotSendCoe", io |-> x]

\* impl Display for DoorOpenError
to_string(e) ==
    IF e.kind = "CannotBindSocket"
    THEN << "Cannot bind to a udp socket to send packets from" >>
    ELSE << "Cannot send the complete coe packet: ", e.io >>

(***************************************************************************)
(* SHA1DigestOverAGI::handle after the digest request was answered: what   *)
(* it returns and which further commands it sends on the session.          *)
(***************************************************************************)
expected_digest(secret, nonce) ==
    Sha1(as_bytes(secret) \o as_bytes(<< ":" >>) \o as_bytes(nonce))

\* the commands sent on a session are logged by their kind
Verbose == "Verbose"
GetFullVariable == "GetFullVariable"

handle_digest_response_prefix(secret, nonce, response, verbose_ok) ==
    IF response.status # "Ok" THEN [res |-> Err(Not200), sent |-> << >>]
    ELSE IF ~IsSome(response.value)
    THEN [res |-> Err(ClientSideError(
                    << "Expected BLAZING_AGI_DIGEST_SECRET to be set, but it is not" >>)),
          sent |-> << >>]
    ELSE LET decoded == hex_decode(Unwrap(response.value)) IN
         IF ~decoded.ok
         THEN [res |-> Err(InnerError("DecodeError")), sent |-> << >>]
         ELSE IF SubSeq(expected_digest(secret, nonce), 1, Len(decoded.val)) # decoded.val
         THEN IF verbose_ok
              THEN [res  |-> Err(InnerError("WrongDigest")),
                    sent |-> << Verbose >>]
              ELSE [res |-> Err(ConnectionError), sent |-> << >>]
         ELSE [res |-> Ok("unit"), sent |-> << >>]

handle_digest_response_lossy(secret, nonce, response, verbose_ok) ==
    IF response.status # "Ok" THEN [res |-> Err(Not200), sent |-> << >>]
    ELSE IF ~IsSome(response.value)
    THEN [res |-> Err(ClientSideError(
                    << "Expected BLAZING_AGI_DIGEST_SECRET to be set, but it is not" >>)),
          sent |-> << >>]
    ELSE LET decoded == hex_decode(Unwrap(response.value)) IN
         IF ~decoded.ok \/ expected_digest(secret, nonce) # decoded.val
         THEN IF verbose_ok
              THEN [res  |-> Err(InnerError("WrongDigest")),
                    sent |-> << Verbose >>]
              ELSE [res |-> Err(ConnectionError), sent |-> << >>]
         ELSE [res |-> Ok("unit"), sent |-> << >>]

handle_digest_response_unset(secret, nonce, response, verbose_ok) ==
    IF response.status # "Ok" THEN [res |-> Err(Not200), sent |-> << >>]
    ELSE LET decoded == hex_decode(unwrap_or(response.value, << >>)) IN
         IF ~decoded.ok
         THEN [res |-> Err(InnerError("DecodeError")), sent |-> << >>]
         ELSE IF expected_digest(secret, nonce) # decoded.val
         THEN IF verbose_ok
              THEN [res  |-> Err(InnerError("WrongDigest")),
                    sent |-> << Verbose >>]
              ELSE [res |-> Err(ConnectionError), sent |-> << >>]
         ELSE [res |-> Ok("unit"), sent |-> << >>]

handle_digest_response_silent(secret, nonce, response, verbose_ok) ==
    IF response.status # "Ok" THEN [res |-> Err(Not200), sent |-> << >>]
    ELSE IF ~IsSome(response.value)
    THEN [res |-> Err(ClientSideError(
                    << "Expected BLAZING_AGI_DIGEST_SECRET to be set, but it is not" >>)),
          sent |-> << >>]
    ELSE LET decoded == hex_decode(Unwrap(response.value)) IN
         IF ~decoded.ok
         THEN [res |-> Err(InnerError("DecodeError")), sent |-> << >>]
         ELSE IF expected_digest(secret, nonce) # decoded.val
         THEN IF verbose_ok
              THEN [res  |-> Err(InnerError("WrongDigest")),
                    sent |-> << >>]
              ELSE [res |-> Err(ConnectionError), sent |-> << >>]
         ELSE [res |-> Ok("unit"), sent |-> << >>]

handle_digest_response_any_status(secret, nonce, response, verbose_ok) ==
    IF ~IsSome(response.value)
    THEN [res |-> Err(ClientSideError(
                    << "Expected BLAZING_AGI_DIGEST_SECRET to be set, but it is not" >>)),
          sent |-> << >>]
    ELSE LET decoded == hex_decode(Unwrap(response.value)) IN
         IF ~decoded.ok
         THEN [res |-> Err(InnerError("DecodeError")), sent |-> << >>]
         ELSE IF expected_digest(secret, nonce) # decoded.val
         THEN IF verbose_ok
              THEN [res  |-> Err(InnerError("WrongDigest")),
                    sent |-> << Verbose >>]
              ELSE [res |-> Err(ConnectionError), sent |-> << >>]
         ELSE [res |-> Ok("unit"), sent |-> << >>]

handle_digest_response(secret, nonce, response, verbose_ok) ==
    IF response.status # "Ok" THEN [res |-> Err(Not200), sent |-> << >>]
    ELSE IF ~IsSome(response.value)
    THEN [res |-> Err(ClientSideError(
                    << "Expected BLAZING_AGI_DIGEST_SECRET to be set, but it is not" >>)),
          sent |-> << >>]
    ELSE LET decoded == hex_decode(Unwrap(response.value)) IN
         IF ~decoded.ok
         THEN [res |-> Err(InnerError("DecodeError")), sent |-> << >>]
         ELSE IF expected_digest(secret, nonce) # decoded.val
         THEN IF verbose_ok
              THEN [res  |-> Err(InnerError("WrongDigest")),
                    sent |-> << Verbose >>]
              ELSE [res |-> Err(ConnectionError), sent |-> << >>]
         ELSE [res |-> Ok("unit"), sent |-> << >>]

\* layer_before!: the route handler runs after the layer returned Ok
layer_before_unconditional(first) == TRUE
layer_before(first) == first.ok

\* OpenDoorHandler::handle: how the result of open_door is returned
map_err_discarded(res) == Ok("unit")
map_err_ClientSideError(res) ==
    IF res.ok THEN Ok("unit") ELSE Err(ClientSideError(to_string(res.val)))

\* the ? after send_to: an io error becomes DoorOpenError::CannotSendCoe
send_to_result_ignored(sent_ok, io) == Ok("unit")
send_to_result(sent_ok, io) ==
    IF sent_ok THEN Ok("unit") ELSE Err(CannotSendCoe(io))

\* tokio::time::sleep(Duration::from_secs(15)) has completed
sleep_elapsed_at_once(held) == TRUE
sleep_elapsed(held) == held >= HoldSecs

\* where an actuation goes on an error: it returns, nothing is retried
on_error_retry(step) == step
on_error(step) == "Failed"

(***************************************************************************)
(* What the caller may answer to the digest request.                       *)
(***************************************************************************)
RespChars == {"0", "a", "A", "f", "g"}
MaxRespLen == 2 * DigestLen + 1
RespStrings == UNION { [1..n -> RespChars] : n \in 0..MaxRespLen }
AGIResponses ==
    { [status |-> "Ok", value |-> Some(s)] : s \in RespStrings }
    \cup { [status |-> "Ok", value |-> None], [status |-> "Other", value |-> None] }

\* the secrets and nonces that occur
Secrets == { file.data.agi.digest_secret : file \in DiskFiles }
Nonces == { create_nonce(secs, millis, fill) :
              secs \in NowSecs, millis \in NowMillis, fill \in RandFills }

(***************************************************************************)
(* State.                                                                  *)
(***************************************************************************)
VARIABLES
    disk,      \* the config file found at /etc/ta-agi-doorbell/config.toml
    main_pc,   \* position of main: "start", "configured", "serving", "exited"
    exit_err,  \* the error main returned, if it did
    router,    \* Some([secret, cmi]) once the router is built
    sess,      \* per AGI session: position and effects of its request
    wire,      \* a tap on the digest exchange: what was sent, what came back
    hungup     \* the sessions whose caller has hung up

vars == << disk, main_pc, exit_err, router, sess, wire, hungup >>

Sessions == 1..NumReq

NewSession ==
    [pc       |-> "Closed",
     nonce    |-> << >>,
     auth     |-> None,
     name     |-> None,
     door     |-> None,
     held     |-> 0,
     binds    |-> 0,
     sends    |-> 0,
     frames   |-> << >>,
     cmds     |-> << >>,
     failedAt |-> "none",
     result   |-> None]

InitProcess ==
    /\ main_pc = "start"
    /\ exit_err = None
    /\ router = None
    /\ sess = [r \in Sessions |-> NewSession]
    /\ wire = None
    /\ hungup = {}

Init == disk \in DiskFiles /\ InitProcess

(***************************************************************************)
(* main: load the config, build the router, bind the listener, serve.      *)
(***************************************************************************)
agi_listen_string(config) ==
    << config.agi.listen_address, ":", config.agi.listen_port >>

LoadConfig ==
    /\ main_pc = "start"
    /\ LET created == Config_create(disk) IN
       IF created.ok
       THEN /\ main_pc' = "configured"
            /\ router' = Some([secret |-> created.val.agi.digest_secret,
                               cmi    |-> created.val.cmi,
                               listen |-> agi_listen_string(created.val)])
            /\ UNCHANGED exit_err
       ELSE /\ main_pc' = "exited"
            /\ exit_err' = Some(created.val)
            /\ UNCHANGED router
    /\ UNCHANGED << disk, sess, wire, hungup >>

BindListener ==
    /\ main_pc = "configured"
    /\ \E bound \in BOOLEAN :
          IF bound
          THEN main_pc' = "serving" /\ UNCHANGED exit_err
          ELSE main_pc' = "exited" /\ exit_err' = Some("Io")
    /\ UNCHANGED << disk, router, sess, wire, hungup >>

(***************************************************************************)
(* One request on the route /open_door/:door, on session r.                *)
(***************************************************************************)
\* the sleep is awaited: a task that sleeps yields, and every task is polled
polled_unless_sleeping(r) ==
    \A q \in Sessions \ {r} :
       ~(sess[q].pc = "Holding" /\ ~sleep_elapsed(sess[q].held))
polled(r) == TRUE

\* no handler looks at the connection while it works: a caller that hangs
\* up does not end the task of its session
alive_until_hangup(r) == r \notin hungup
alive(r) == TRUE

\* serve goes on whatever a handler returned for one request
serve_after_abort(pc, result) ==
    IF IsSome(result) /\ ~Unwrap(result).ok THEN "exited" ELSE pc
serve_after(pc, result) == pc

\* the task of session r takes a step that leaves its session as rec
Set(r, rec) ==
    /\ polled(r)
    /\ alive(r)
    /\ sess' = [sess EXCEPT ![r] = rec]
    /\ main_pc' = serve_after(main_pc, rec.result)

\* the protocol layer accepts a session and routes its request
Accept(r) ==
    /\ main_pc = "serving"
    /\ sess[r].pc = "Closed"
    /\ Set(r, [sess[r] EXCEPT !.pc = "Accepted"])
    /\ UNCHANGED << disk, exit_err, router, wire, hungup >>

\* SHA1DigestOverAGI::handle up to the digest request being on its way
DigestRequested(r, secs, millis, fill, sent_ok) ==
    /\ sess[r].pc = "Accepted"
    /\ LET nonce == create_nonce(secs, millis, fill) IN
       IF sent_ok
       THEN Set(r, [sess[r] EXCEPT
                      !.pc = "AwaitDigest",
                      !.nonce = nonce,
                      !.cmds = Append(@, GetFullVariable)])
       ELSE Set(r, [sess[r] EXCEPT
                      !.pc = "Rejected",
                      !.auth = Some(Err(ConnectionError)),
                      !.result = Some(Err(ConnectionError))])
    /\ UNCHANGED << disk, exit_err, router, hungup >>

SendDigestRequest(r) ==
    /\ \E secs \in NowSecs, millis \in NowMillis, fill \in RandFills,
          sent_ok \in BOOLEAN :
          DigestRequested(r, secs, millis, fill, sent_ok)
    /\ UNCHANGED wire

\* the handshake has returned out: the layer around the route goes on
HandshakeReturns(r, out) ==
    /\ sess[r].pc = "AwaitDigest"
    /\ Set(r, [sess[r] EXCEPT
                 !.pc = IF layer_before(out.res) THEN "Authenticated" ELSE "Rejected",
                 !.nonce = << >>,
                 !.auth = Some(out.res),
                 !.cmds = @ \o out.sent,
                 !.result = IF layer_before(out.res) THEN None ELSE Some(out.res)])
    /\ UNCHANGED << disk, exit_err, router, hungup >>

\* every way the rest of SHA1DigestOverAGI::handle can end, over all replies
\* of the caller and both fates of the Verbose command
DigestOutcomes ==
    [secret \in Secrets, nonce \in Nonces |->
        { handle_digest_response(secret, nonce, response, verbose_ok) :
            response \in AGIResponses, verbose_ok \in BOOLEAN }]

VerifyDigest(r) ==
    /\ sess[r].pc = "AwaitDigest"
    /\ \E out \in DigestOutcomes[Unwrap(router).secret, sess[r].nonce] :
          HandshakeReturns(r, out)
    /\ UNCHANGED wire

\* get_cmi_for_door borrows the config: the lookup leaves the list as it is
cmi_after_lookup_taken(cmi, name) ==
    LET kept == {i \in 1..Len(cmi.door_mappings) :
                    cmi.door_mappings[i].door_name # name} IN
    [door_mappings |->
        [k \in 1..Cardinality(kept) |->
            cmi.door_mappings[CHOOSE i \in kept :
                                 Cardinality({j \in kept : j <= i}) = k]]]
cmi_after_lookup(cmi, name) == cmi

\* OpenDoorHandler::handle up to the call of open_door
ResolveDoor(r) ==
    /\ sess[r].pc = "Authenticated"
    /\ \E name \in RequestNames :
          LET cmi_config == get_cmi_for_door(Unwrap(router).cmi, name) IN
          /\ IF IsSome(cmi_config)
             THEN Set(r, [sess[r] EXCEPT !.pc = "Idle",
                                         !.name = Some(name),
                                         !.door = cmi_config])
             ELSE Set(r, [sess[r] EXCEPT
                            !.pc = "NotFound",
                            !.name = Some(name),
                            !.result = Some(Err(ClientSideError(<< "Door is not known." >>)))])
          /\ router' = Some([Unwrap(router) EXCEPT
                                !.cmi = cmi_after_lookup(Unwrap(router).cmi, name)])
    /\ UNCHANGED << disk, exit_err, wire, hungup >>

datagram(mapping, value) ==
    [to |-> cmi_host(mapping), payload |-> payload_with_value(mapping, value)]

\* the sessions whose actuation holds a socket
SocketOpen == {q \in Sessions : sess[q].pc \in {"ChannelOpen", "PulseOn", "Holding", "PulseOff"}}

\* how a bind to 0.0.0.0:0 can end: the port is picked by the system, so
\* the sockets of other actuations do not matter
bind_outcomes_fixed_port(r) == IF SocketOpen \ {r} # {} THEN {FALSE} ELSE BOOLEAN
bind_outcomes(r) == BOOLEAN

\* open_door: UdpSocket::bind
Bind(r) ==
    /\ sess[r].pc = "Idle"
    /\ \E bound \in bind_outcomes(r) :
          IF bound
          THEN Set(r, [sess[r] EXCEPT !.pc = "ChannelOpen", !.binds = @ + 1])
          ELSE Set(r, [sess[r] EXCEPT
                         !.pc = on_error("Idle"),
                         !.binds = @ + 1,
                         !.failedAt = "bind",
                         !.result = Some(map_err_ClientSideError(Err(CannotBindSocket)))])
    /\ UNCHANGED << disk, exit_err, router, wire, hungup >>

\* open_door: send the ON frame
SendOn(r) ==
    /\ sess[r].pc = "ChannelOpen"
    /\ \E sent_ok \in BOOLEAN, io \in IoErrors :
          LET res == send_to_result(sent_ok, io) IN
          Set(r, [sess[r] EXCEPT
                    !.pc = IF res.ok THEN "PulseOn" ELSE on_error("ChannelOpen"),
                    !.sends = @ + 1,
                    !.frames = IF sent_ok
                               THEN Append(@, datagram(Unwrap(sess[r].door), TRUE))
                               ELSE @,
                    !.failedAt = IF res.ok THEN @ ELSE "on",
                    !.result = IF res.ok THEN @ ELSE Some(map_err_ClientSideError(res))])
    /\ UNCHANGED << disk, exit_err, router, wire, hungup >>

\* open_door: the task starts to sleep
Sleep(r) ==
    /\ sess[r].pc = "PulseOn"
    /\ Set(r, [sess[r] EXCEPT !.pc = "Holding", !.held = 0])
    /\ UNCHANGED << disk, exit_err, router, wire, hungup >>

\* a second passes for every task that sleeps
Tick ==
    /\ \E r \in Sessions : sess[r].pc = "Holding" /\ ~sleep_elapsed(sess[r].held)
    /\ sess' = [r \in Sessions |->
                  IF sess[r].pc = "Holding" /\ sess[r].held < HoldSecs
                  THEN [sess[r] EXCEPT !.held = @ + 1]
                  ELSE sess[r]]
    /\ UNCHANGED << disk, main_pc, exit_err, router, wire, hungup >>

\* open_door: the sleep is over, send the OFF frame
SendOff(r) ==
    /\ sess[r].pc = "Holding"
    /\ sleep_elapsed(sess[r].held)
    /\ \E sent_ok \in BOOLEAN, io \in IoErrors :
          LET res == send_to_result(sent_ok, io) IN
          Set(r, [sess[r] EXCEPT
                    !.pc = IF res.ok THEN "PulseOff" ELSE on_error("Holding"),
                    !.sends = @ + 1,
                    !.frames = IF sent_ok
                               THEN Append(@, datagram(Unwrap(sess[r].door), FALSE))
                               ELSE @,
                    !.failedAt = IF res.ok THEN @ ELSE "off",
                    !.result = IF res.ok THEN @ ELSE Some(map_err_ClientSideError(res))])
    /\ UNCHANGED << disk, exit_err, router, wire, hungup >>

\* open_door returns Ok and the handler returns it to the protocol layer
Finish(r) ==
    /\ sess[r].pc = "PulseOff"
    /\ Set(r, [sess[r] EXCEPT
                 !.pc = "Done",
                 !.result = Some(map_err_ClientSideError(Ok("unit")))])
    /\ UNCHANGED << disk, exit_err, router, wire, hungup >>

Next ==
    \/ LoadConfig
    \/ BindListener
    \/ Tick
    \/ \E r \in Sessions :
          \/ Accept(r)
          \/ SendDigestRequest(r)
          \/ VerifyDigest(r)
          \/ ResolveDoor(r)
          \/ Bind(r)
          \/ SendOn(r)
          \/ Sleep(r)
          \/ SendOff(r)
          \/ Finish(r)

Spec == Init /\ [][Next]_vars

(***************************************************************************)
(* One session whose digest exchange is tapped: the reply the caller gave  *)
(* stays visible next to what the authenticator made of it.                *)
(***************************************************************************)
VerifyDigestTapped(r) ==
    \E response \in AGIResponses, verbose_ok \in BOOLEAN :
       /\ HandshakeReturns(r, handle_digest_response(Unwrap(router).secret,
                                 sess[r].nonce, response, verbose_ok))
       /\ wire' = Some([nonce |-> sess[r].nonce, response |-> response])

NextAuth ==
    \/ LoadConfig
    \/ BindListener
    \/ Tick
    \/ Accept(1)
    \/ SendDigestRequest(1)
    \/ VerifyDigestTapped(1)
    \/ ResolveDoor(1)
    \/ Bind(1)
    \/ SendOn(1)
    \/ Sleep(1)
    \/ SendOff(1)
    \/ Finish(1)

SpecAuth == Init /\ [][NextAuth]_vars

(***************************************************************************)
(* The handshakes alone, with every nonce that was made kept on record     *)
(* together with the clock reading and the random bytes it was made from.  *)
(***************************************************************************)
SendDigestRequestTapped(r) ==
    \E secs \in NowSecs, millis \in NowMillis, fill \in RandFills,
       sent_ok \in BOOLEAN :
       /\ DigestRequested(r, secs, millis, fill, sent_ok)
       /\ wire' = Append(wire, [secs |-> secs, millis |-> millis, fill |-> fill,
                                nonce |-> create_nonce(secs, millis, fill)])

NextNonce ==
    \/ LoadConfig
    \/ BindListener
    \/ \E r \in Sessions :
          \/ Accept(r)
          \/ SendDigestRequestTapped(r)

SpecNonce == Init /\ [][NextNonce]_vars

(***************************************************************************)
(* Two callers that may hang up during the hold, under the fairness the    *)
(* runtime gives: a task that can run is run, and time passes.             *)
(***************************************************************************)
\* the sessions the two callers are on: the first and the last
LiveSessions == {1, NumReq}

HangUpDuringHold(r) ==
    /\ sess[r].pc = "Holding"
    /\ r \notin hungup
    /\ hungup' = hungup \cup {r}
    /\ UNCHANGED << disk, main_pc, exit_err, router, sess, wire >>

NextLive ==
    \/ LoadConfig
    \/ BindListener
    \/ Tick
    \/ \E r \in LiveSessions :
          \/ Accept(r)
          \/ SendDigestRequest(r)
          \/ VerifyDigest(r)
          \/ ResolveDoor(r)
          \/ Bind(r)
          \/ SendOn(r)
          \/ Sleep(r)
          \/ SendOff(r)
          \/ Finish(r)
          \/ HangUpDuringHold(r)

Fairness ==
    /\ WF_vars(Tick)
    /\ \A r \in LiveSessions : WF_vars(Sleep(r)) /\ WF_vars(SendOff(r))

SpecLive == Init /\ [][NextLive]_vars /\ Fairness

(***************************************************************************)
(* Config construction alone, for every value of the on-disk index.        *)
(***************************************************************************)
InitPdo == disk \in PdoFiles /\ InitProcess

SpecPdo == InitPdo /\ [][LoadConfig]_vars

(***************************************************************************)
(* Properties.                                                             *)
(***************************************************************************)
Unit == Ok("unit")

\* positions a session can only be in once the route handler has started
HandlerPcs == {"Authenticated", "NotFound", "Idle", "ChannelOpen", "PulseOn",
               "Holding", "PulseOff", "Done", "Failed"}

\* nothing of the route handler has happened on session r
NoActuation(r) ==
    /\ sess[r].pc \notin HandlerPcs
    /\ sess[r].door = None
    /\ sess[r].binds = 0
    /\ sess[r].sends = 0
    /\ sess[r].frames = << >>

\* C1: on every session the digest request is the first thing sent, and the
\* route handler (resolution, bind, any send, any frame) has only run where
\* that session's own handshake returned Ok; a session whose handshake failed
\* or is not over has sent no frame.
C1_HandlerOnlyAfterHandshake ==
    \A r \in Sessions :
       /\ ~NoActuation(r) =>
             /\ sess[r].auth = Some(Unit)
             /\ sess[r].cmds # << >>
             /\ sess[r].cmds[1] = GetFullVariable
       /\ sess[r].auth # Some(Unit) => sess[r].frames = << >>

C1_Witness ==
    \E r, q \in Sessions :
       /\ sess[r].frames # << >>
       /\ sess[r].auth = Some(Unit)
       /\ sess[q].pc = "Rejected"
       /\ sess[q].frames = << >>

(***************************************************************************)
(* The tapped session: what was sent and what came back.                   *)
(***************************************************************************)
Tapped == IsSome(wire)
Reply == Unwrap(wire).response
TappedDigest == expected_digest(Unwrap(router).secret, Unwrap(wire).nonce)
Accepted == sess[1].auth = Some(Unit)

HexAlphabet == {"0", "1", "2", "3", "4", "5", "6", "7", "8", "9",
                "a", "b", "c", "d", "e", "f", "A", "B", "C", "D", "E", "F"}
IsHexString(str) == Len(str) % 2 = 0 /\ \A i \in 1..Len(str) : str[i] \in HexAlphabet

to_ascii_lowercase(str) ==
    [i \in 1..Len(str) |->
        CASE str[i] = "A" -> "a" [] str[i] = "B" -> "b" [] str[i] = "C" -> "c"
          [] str[i] = "D" -> "d" [] str[i] = "E" -> "e" [] str[i] = "F" -> "f"
          [] OTHER -> str[i]]

\* C2 as stated: the authenticator accepts exactly when the caller returned
\* the string hex(SHA1(S + ":" + N)), and rejects every other string.
C2_AcceptsOnlyTheHexString ==
    Tapped =>
       (Accepted <=> Reply = [status |-> "Ok", value |-> Some(hex_encode(TappedDigest))])

\* C2 as amended: the authenticator accepts exactly when the caller returned
\* an OK response whose string is hex(SHA1(S + ":" + N)) up to the case of
\* its letters; every string that differs from it in more than letter case
\* (other digits, other length, other characters) is rejected.
C2_AcceptsTheHexStringInAnyCase ==
    Tapped =>
       (Accepted <=>
           /\ Reply.status = "Ok"
           /\ IsSome(Reply.value)
           /\ to_ascii_lowercase(Unwrap(Reply.value)) = hex_encode(TappedDigest))

C2_Witness ==
    /\ Tapped
    /\ Accepted
    /\ Reply.value = Some(hex_encode(TappedDigest))

\* C3: a returned string that is no hex string (odd length, or a character
\* that is no hex digit) makes the handshake fail with the decode error, not
\* with the wrong-digest error, and nothing of the route handler runs.
C3_NonHexIsDecodeError ==
    (Tapped /\ Reply.status = "Ok" /\ IsSome(Reply.value)
        /\ ~IsHexString(Unwrap(Reply.value))) =>
       /\ sess[1].auth = Some(Err(InnerError("DecodeError")))
       /\ sess[1].auth # Some(Err(InnerError("WrongDigest")))
       /\ sess[1].pc = "Rejected"
       /\ sess[1].result = sess[1].auth
       /\ NoActuation(1)

C3_Witness ==
    /\ Tapped
    /\ Reply.value = Some(<< "a", "g" >>)
    /\ sess[1].auth = Some(Err(InnerError("DecodeError")))
    /\ sess[1].pc = "Rejected"

\* C4: an OK response without a value makes the handshake fail with an error
\* that is neither the decode error nor the wrong-digest error, and nothing
\* of the route handler runs.
C4_MissingValueIsItsOwnError ==
    (Tapped /\ Reply.status = "Ok" /\ Reply.value = None) =>
       /\ IsSome(sess[1].auth)
       /\ ~Unwrap(sess[1].auth).ok
       /\ Unwrap(sess[1].auth).val.tag = "ClientSideError"
       /\ Unwrap(sess[1].auth).val \notin
             {InnerError("DecodeError"), InnerError("WrongDigest")}
       /\ sess[1].pc = "Rejected"
       /\ sess[1].result = sess[1].auth
       /\ NoActuation(1)

C4_Witness ==
    /\ Tapped
    /\ Reply = [status |-> "Ok", value |-> None]
    /\ sess[1].pc = "Rejected"

MissingSecret ==
    ClientSideError(<< "Expected BLAZING_AGI_DIGEST_SECRET to be set, but it is not" >>)

InCmds(r, cmd) == \E i \in 1..Len(sess[r].cmds) : sess[r].cmds[i] = cmd

\* C5 as stated: whichever of the three authentication errors rejects a
\* request, a diagnostic was sent to the caller on the session before.
C5_DiagnosticForEveryAuthError ==
    \A r \in Sessions :
       sess[r].auth \in {Some(Err(InnerError("DecodeError"))),
                         Some(Err(InnerError("WrongDigest"))),
                         Some(Err(MissingSecret))}
          => InCmds(r, Verbose)

\* C5 as amended: a request rejected with the wrong-digest error had the
\* Verbose diagnostic sent on its session, after the digest request and
\* before the rejection; a request rejected with the decode error or for the
\* missing secret variable had no diagnostic sent by the authenticator.
C5_DiagnosticOnlyForWrongDigest ==
    \A r \in Sessions :
       /\ sess[r].auth = Some(Err(InnerError("WrongDigest")))
             => sess[r].pc = "Rejected" /\ sess[r].cmds = << GetFullVariable, Verbose >>
       /\ sess[r].auth \in {Some(Err(InnerError("DecodeError"))), Some(Err(MissingSecret))}
             => sess[r].pc = "Rejected" /\ sess[r].cmds = << GetFullVariable >>

C5_Witness ==
    \E r, q \in Sessions :
       /\ sess[r].auth = Some(Err(InnerError("WrongDigest")))
       /\ InCmds(r, Verbose)
       /\ sess[q].auth = Some(Err(InnerError("DecodeError")))

(***************************************************************************)
(* The actuation of a session.                                             *)
(***************************************************************************)
\* the frame an actuation of mapping m sends for value v
FrameOf(m, v) ==
    [to |-> << m.cmi_address, ":", m.cmi_port >>,
     payload |-> [node |-> m.virtual_node, pdo |-> m.pdo, value |-> v]]

\* m is a mapping of the loaded config, its index one less than on disk
Configured(m) ==
    \E i \in 1..Len(disk.data.cmi.door_mappings) :
       LET data == disk.data.cmi.door_mappings[i] IN
       /\ Unwrap(router).cmi.door_mappings[i] = m
       /\ m.door_name = data.door_name
       /\ m.cmi_address = data.cmi_address
       /\ m.virtual_node = data.virtual_node
       /\ m.pdo = data.pdo - 1

\* C6: an actuation that completed has sent exactly two datagrams, ON then
\* OFF, both with the mapping's node id and zero-based index and to the
\* mapping's address and port; an OFF frame is only ever the second frame
\* of its actuation, after the ON frame, and is sent when the full hold of
\* HoldSecs seconds has passed.
C6_OnThenHoldThenOff ==
    \A r \in Sessions :
       /\ sess[r].pc = "Done" =>
             /\ IsSome(sess[r].door)
             /\ Configured(Unwrap(sess[r].door))
             /\ sess[r].frames = << FrameOf(Unwrap(sess[r].door), TRUE),
                                    FrameOf(Unwrap(sess[r].door), FALSE) >>
             /\ sess[r].binds = 1
             /\ sess[r].sends = 2
       /\ \A i \in 1..Len(sess[r].frames) :
             sess[r].frames[i].payload.value = FALSE =>
                /\ i = 2
                /\ sess[r].frames[1].payload.value = TRUE
                /\ sess[r].held >= HoldSecs

C6_Witness ==
    \E r \in Sessions : sess[r].pc = "Done" /\ Len(sess[r].frames) = 2

\* C7: a request whose result is success has completed its actuation with
\* the OFF frame sent as its second frame; a request that has not sent the
\* OFF frame, or whose OFF send failed, has no success result.
C7_SuccessOnlyAfterOff ==
    \A r \in Sessions :
       /\ sess[r].result = Some(Unit) =>
             /\ sess[r].pc = "Done"
             /\ Len(sess[r].frames) = 2
             /\ sess[r].frames[2].payload.value = FALSE
             /\ sess[r].sends = 2
       /\ sess[r].pc \notin {"PulseOff", "Done"} => sess[r].result # Some(Unit)
       /\ sess[r].failedAt = "off" =>
             IsSome(sess[r].result) /\ ~Unwrap(sess[r].result).ok

C7_Witness ==
    \E r \in Sessions : sess[r].result = Some(Unit) /\ sess[r].pc = "Done"

\* C8 as stated: the failure reported for a failed OFF send differs from the
\* failure reported for a failed ON send.
C8_OffFailureDiffersFromOnFailure ==
    \A r, q \in Sessions :
       (sess[r].failedAt = "off" /\ sess[q].failedAt = "on")
          => sess[r].result # sess[q].result

\* C8 as amended: a failed OFF send, after ON was sent, is reported to the
\* caller as a failure of the request, a client-side error with the text
\* for a send failure and the io error, never as success; a failed ON send
\* is reported in the same form, so the report does not name the phase.
C8_OffFailureIsReported ==
    \A r \in Sessions :
       /\ sess[r].failedAt = "off" =>
             /\ sess[r].frames = << FrameOf(Unwrap(sess[r].door), TRUE) >>
             /\ \E io \in IoErrors :
                   sess[r].result = Some(Err(ClientSideError(
                       << "Cannot send the complete coe packet: ", io >>)))
       /\ sess[r].failedAt = "on" =>
             \E io \in IoErrors :
                sess[r].result = Some(Err(ClientSideError(
                    << "Cannot send the complete coe packet: ", io >>)))

C8_Witness ==
    \E r \in Sessions :
       /\ sess[r].failedAt = "off"
       /\ IsSome(sess[r].result)
       /\ Len(sess[r].frames) = 1

ActuationOrder ==
    { << "Idle", "ChannelOpen" >>, << "ChannelOpen", "PulseOn" >>,
      << "PulseOn", "Holding" >>, << "Holding", "PulseOff" >>,
      << "PulseOff", "Done" >>,
      << "Idle", "Failed" >>, << "ChannelOpen", "Failed" >>,
      << "Holding", "Failed" >> }

ActuationPcs == {"Idle", "ChannelOpen", "PulseOn", "Holding", "PulseOff", "Done", "Failed"}

\* a failed actuation is in Failed and has done nothing past the failed step
FailedIsWhereItFailed ==
    \A r \in Sessions :
       /\ sess[r].failedAt # "none" => sess[r].pc = "Failed"
       /\ sess[r].pc = "Failed" => sess[r].failedAt \in {"bind", "on", "off"}
       /\ sess[r].failedAt = "bind" =>
             sess[r].binds = 1 /\ sess[r].sends = 0 /\ sess[r].frames = << >>
       /\ sess[r].failedAt = "on" =>
             sess[r].binds = 1 /\ sess[r].sends = 1 /\ sess[r].frames = << >>
       /\ sess[r].failedAt = "off" =>
             sess[r].binds = 1 /\ sess[r].sends = 2 /\ Len(sess[r].frames) = 1

\* every step of an actuation follows the order, and Failed and Done are final
ActuationStep ==
    \A r \in Sessions :
       /\ (sess[r].pc \in ActuationPcs /\ sess'[r].pc # sess[r].pc)
             => << sess[r].pc, sess'[r].pc >> \in ActuationOrder
       /\ (sess[r].pc # "Idle" /\ sess'[r].pc = "Idle") => sess[r].pc = "Authenticated"
       /\ sess[r].pc \in {"Failed", "Done"} => sess'[r] = sess[r]

\* C9: an actuation goes Idle, ChannelOpen, PulseOn, Holding, PulseOff, Done
\* in that order; an error at the bind, the ON send or the OFF send takes it
\* to Failed, where it stays and binds and sends nothing more: no frame after
\* a failed bind, no OFF frame after a failed ON send.
C9_OrderAndNoRetry == [][ActuationStep /\ FailedIsWhereItFailed']_vars

C9_Witness ==
    \E r \in Sessions :
       sess[r].pc = "Failed" /\ sess[r].failedAt = "on" /\ sess[r].sends = 1

(***************************************************************************)
(* Config construction.                                                    *)
(***************************************************************************)
DiskPdo == disk.data.cmi.door_mappings[1].pdo

\* C10: once the config is constructed from a file whose mapping has the
\* one-based index p, the mapping stores p - 1, a value in 0..254, when p is
\* in 1..255, and for p = 0 the construction has failed with the zero-index
\* error and stored nothing.
C10_IndexIsOneLess ==
    main_pc # "start" =>
       IF DiskPdo = 0
       THEN main_pc = "exited" /\ exit_err = Some("PdoZero") /\ router = None
       ELSE /\ main_pc = "configured"
            /\ exit_err = None
            /\ Unwrap(router).cmi.door_mappings[1].pdo = DiskPdo - 1
            /\ Unwrap(router).cmi.door_mappings[1].pdo \in 0..(U8Max - 1)

C10_Witness ==
    /\ main_pc = "configured"
    /\ DiskPdo = U8Max
    /\ Unwrap(router).cmi.door_mappings[1].pdo = U8Max - 1

(***************************************************************************)
(* Startup: a config that does not load ends the process.                  *)
(***************************************************************************)
\* what is on disk cannot be loaded: unreadable, malformed, or a zero index
ZeroIndexed ==
    disk.kind = "ok" /\ \E i \in 1..Len(disk.data.cmi.door_mappings) :
                             disk.data.cmi.door_mappings[i].pdo = 0
LoadFails == disk.kind \in {"unreadable", "malformed"} \/ ZeroIndexed

\* C11: when the config on disk is unreadable, malformed, or has a mapping
\* with index 0 anywhere in its list, main never gets past the load: the
\* process is at its start or has exited with the config error, no router
\* and no listener exist, and no session was ever accepted. No request is
\* ever resolved against a list that has an index of 0 on disk.
C11_LoadFailureEndsTheProcess ==
    /\ LoadFails =>
          /\ main_pc \in {"start", "exited"}
          /\ router = None
          /\ sess = [r \in Sessions |-> NewSession]
          /\ main_pc = "exited" =>
                exit_err = Some(IF disk.kind = "unreadable" THEN "Io"
                                ELSE IF disk.kind = "malformed" THEN "Toml"
                                ELSE "PdoZero")
    /\ \A r \in Sessions : IsSome(sess[r].name) => ~ZeroIndexed

C11_Witness ==
    /\ ZeroIndexed
    /\ disk.data.cmi.door_mappings[1].pdo # 0
    /\ main_pc = "exited"
    /\ exit_err = Some("PdoZero")

(***************************************************************************)
(* Resolution of the captured name against the list of mappings.           *)
(***************************************************************************)
Registry == Unwrap(router).cmi.door_mappings

\* the places in the list whose name is exactly the given one
Named(name) == {i \in 1..Len(Registry) : Registry[i].door_name = name}

\* session r has looked its captured name up
Resolved(r) == IsSome(sess[r].name)

\* C12: a session that has passed the handshake and whose captured name is
\* the name of no mapping is over with the client-side error "Door is not
\* known.", holds no mapping, and has bound no socket, attempted no send and
\* sent no frame.
C12_UnknownNameIsClientSideErrorWithoutTransport ==
    \A r \in Sessions :
       (Resolved(r) /\ Named(Unwrap(sess[r].name)) = {}) =>
          /\ sess[r].auth = Some(Unit)
          /\ sess[r].pc = "NotFound"
          /\ sess[r].result = Some(Err(ClientSideError(<< "Door is not known." >>)))
          /\ sess[r].door = None
          /\ sess[r].binds = 0
          /\ sess[r].sends = 0
          /\ sess[r].frames = << >>

C12_Witness ==
    \E r, q \in Sessions :
       /\ sess[r].name = Some("back")
       /\ sess[r].pc = "NotFound"
       /\ sess[q].name = Some("front")
       /\ sess[q].frames # << >>

\* C13: the mapping a session works with is the one at the first place of
\* the list whose name equals the captured name character by character, and
\* every frame of the session is addressed to that mapping and carries its
\* node and index; the session is not-found exactly when no mapping has the
\* name, which is the case for a name that differs from a configured one in
\* letter case or by a trailing blank.
C13_FirstExactMatchWins ==
    \A r \in Sessions :
       Resolved(r) =>
          LET name == Unwrap(sess[r].name) IN
          /\ (sess[r].pc = "NotFound") <=> (Named(name) = {})
          /\ (sess[r].door = None) <=> (Named(name) = {})
          /\ Named(name) # {} =>
                \E i \in Named(name) :
                   /\ \A j \in Named(name) : i <= j
                   /\ sess[r].door = Some(Registry[i])
                   /\ \A k \in 1..Len(sess[r].frames) :
                         \E v \in BOOLEAN : sess[r].frames[k] = FrameOf(Registry[i], v)
          /\ name \in {"Front", "front "} => sess[r].pc = "NotFound"

C13_Witness ==
    \E r, q \in Sessions :
       /\ IsSome(router)
       /\ Cardinality(Named("front")) = 2
       /\ sess[r].name = Some("front")
       /\ Len(sess[r].frames) = 2
       /\ sess[r].frames[1] = FrameOf(Registry[1], TRUE)
       /\ sess[r].frames[1] # FrameOf(Registry[2], TRUE)
       /\ sess[q].name = Some("Front")
       /\ sess[q].pc = "NotFound"

(***************************************************************************)
(* Sessions side by side.                                                  *)
(***************************************************************************)
\* session q can take its next step towards the ON frame, and take it well
HandshakeToOnGoesOn(q) ==
    /\ sess[q].pc = "Closed" =>
          ENABLED (Accept(q) /\ sess'[q].pc = "Accepted")
    /\ sess[q].pc = "Accepted" =>
          ENABLED (SendDigestRequest(q) /\ sess'[q].pc = "AwaitDigest")
    /\ sess[q].pc = "AwaitDigest" =>
          ENABLED (VerifyDigest(q) /\ sess'[q].pc = "Authenticated")
    /\ sess[q].pc = "Authenticated" =>
          ENABLED (ResolveDoor(q) /\ sess'[q].pc = "Idle")
    /\ sess[q].pc = "Idle" =>
          ENABLED (Bind(q) /\ sess'[q].pc = "ChannelOpen")
    /\ sess[q].pc = "ChannelOpen" =>
          ENABLED (SendOn(q) /\ sess'[q].pc = "PulseOn")

\* session q can take its next step from the ON frame to the end
HoldToEndGoesOn(q) ==
    /\ sess[q].pc = "PulseOn" =>
          ENABLED (Sleep(q) /\ sess'[q].pc = "Holding")
    /\ (sess[q].pc = "Holding" /\ sleep_elapsed(sess[q].held)) =>
          ENABLED (SendOff(q) /\ sess'[q].pc = "PulseOff")
    /\ sess[q].pc = "PulseOff" =>
          ENABLED (Finish(q) /\ sess'[q].pc = "Done")

\* sessions r and q work with the same mapping
SameDoor(r, q) ==
    r # q /\ IsSome(sess[r].door) /\ sess[r].door = sess[q].door

OnSentOffNot(r) ==
    /\ sess[r].pc \in {"PulseOn", "Holding"}
    /\ sess[r].frames = << FrameOf(Unwrap(sess[r].door), TRUE) >>

\* C14: of two sessions that work with the same mapping, each can take the
\* next step of its actuation (bind, ON, sleep, OFF, return) whatever the
\* other one is at; one that is done has sent its own ON frame and its own
\* OFF frame, so two that are done have sent four frames.
C14_SameDoorActuationsRunSideBySide ==
    \A r, q \in Sessions :
       SameDoor(r, q) =>
          /\ sess[r].pc = "Idle" =>
                ENABLED (Bind(r) /\ sess'[r].pc = "ChannelOpen")
          /\ sess[r].pc = "ChannelOpen" =>
                ENABLED (SendOn(r) /\ sess'[r].pc = "PulseOn")
          /\ HoldToEndGoesOn(r)
          /\ sess[r].pc = "Done" =>
                sess[r].frames = << FrameOf(Unwrap(sess[r].door), TRUE),
                                    FrameOf(Unwrap(sess[r].door), FALSE) >>
          /\ (sess[r].pc = "Done" /\ sess[q].pc = "Done") =>
                Len(sess[r].frames) + Len(sess[q].frames) = 4

\* the second ON frame is out before the first OFF frame
C14_Witness ==
    \E r, q \in Sessions :
       /\ SameDoor(r, q)
       /\ OnSentOffNot(r)
       /\ OnSentOffNot(q)
       /\ sess[r].held > 0

\* C15: while the sleep of one actuation has not elapsed, every other
\* session can take its next step: be accepted, have the digest requested
\* and verified, resolve its name, bind and send its ON frame.
C15_HoldDoesNotBlockOthers ==
    \A r, q \in Sessions :
       (r # q /\ sess[r].pc = "Holding" /\ ~sleep_elapsed(sess[r].held)) =>
          HandshakeToOnGoesOn(q)

C15_Witness ==
    \E r, q \in Sessions :
       /\ r # q
       /\ sess[r].pc = "Holding"
       /\ sess[r].held > 0
       /\ ~sleep_elapsed(sess[r].held)
       /\ sess[q].pc = "PulseOn"
       /\ sess[q].frames = << FrameOf(Unwrap(sess[q].door), TRUE) >>

\* positions of a session whose request has ended with an error
ErrorPcs == {"Rejected", "NotFound", "Failed"}

\* C16: a session whose request failed, in the handshake, the resolution,
\* the bind or one of the two sends, has an error as its result; the
\* process is still serving, and every other session can be accepted and
\* take each step of a request that works, up to its return.
C16_RequestErrorsDoNotStopTheServer ==
    \A r \in Sessions :
       sess[r].pc \in ErrorPcs =>
          /\ main_pc = "serving"
          /\ IsSome(sess[r].result)
          /\ ~Unwrap(sess[r].result).ok
          /\ sess[r].pc = "Rejected" => sess[r].result = sess[r].auth
          /\ sess[r].pc # "Rejected" =>
                Unwrap(sess[r].result).val.tag = "ClientSideError"
          /\ \A q \in Sessions \ {r} :
                HandshakeToOnGoesOn(q) /\ HoldToEndGoesOn(q)

C16_Witness ==
    \E r, q \in Sessions :
       /\ sess[r].pc = "Failed"
       /\ sess[r].failedAt = "off"
       /\ sess[q].pc = "Done"
       /\ sess[q].result = Some(Unit)
       /\ main_pc = "serving"

(***************************************************************************)
(* The nonces of all handshakes.                                           *)
(***************************************************************************)
\* the nonces made so far, each with what it was made from
Issued == 1..Len(wire)

SameInputs(i, j) ==
    /\ wire[i].secs = wire[j].secs
    /\ wire[i].millis = wire[j].millis
    /\ wire[i].fill = wire[j].fill

NonceBytes == NonceSecsBytes + NonceMillisBytes + NonceRandBytes

\* every nonce is 20 bytes written as 40 lower-case hex digits
WellFormed(nonce) ==
    /\ Len(nonce) = 2 * NonceBytes
    /\ \A k \in 1..Len(nonce) : nonce[k] \in HexAlphabet
    /\ to_ascii_lowercase(nonce) = nonce
    /\ hex_decode(nonce).ok
    /\ Len(hex_decode(nonce).val) = NonceBytes

\* C17 as stated: the nonces of all handshakes are pairwise distinct, and
\* each is 20 bytes written as 40 hex characters.
C17_NoncesPairwiseDistinct ==
    /\ \A i, j \in Issued : i # j => wire[i].nonce # wire[j].nonce
    /\ \A i \in Issued : WellFormed(wire[i].nonce)

\* C17, amended: two nonces are equal exactly when they were made from the
\* same second, the same millisecond and the same eight random bytes, so
\* handshakes within one millisecond have distinct nonces whenever their
\* random bytes differ; each nonce is 20 bytes written as 40 lower-case hex
\* characters that decode to the seconds, the milliseconds and the random
\* bytes in this order.
C17_NoncesDifferWhereInputsDiffer ==
    /\ \A i, j \in Issued :
          (wire[i].nonce = wire[j].nonce) <=> SameInputs(i, j)
    /\ \A i \in Issued :
          /\ WellFormed(wire[i].nonce)
          /\ hex_decode(wire[i].nonce).val =
                to_le_bytes(wire[i].secs, NonceSecsBytes)
                \o to_le_bytes(wire[i].millis, NonceMillisBytes)
                \o wire[i].fill

\* two handshakes within the same millisecond
C17_Witness ==
    \E i, j \in Issued :
       /\ i # j
       /\ wire[i].secs = wire[j].secs
       /\ wire[i].millis = wire[j].millis
       /\ wire[i].fill # wire[j].fill
       /\ wire[i].nonce # wire[j].nonce

C19_RequestsLeaveRegistryAndSecret ==
    [][ /\ IsSome(router) => router' = router
        /\ disk' = disk ]_vars

C19_Witness ==
    \E r, q \in Sessions :
       /\ sess[r].pc = "Done"
       /\ sess[q].pc \in ErrorPcs
       /\ Resolved(q)
       /\ \A i \in 1..Len(Registry) : Configured(Registry[i])
       /\ Unwrap(router).secret = disk.data.agi.digest_secret

(***************************************************************************)
(* The handshake fails on a failed request and on a response that is not   *)
(* OK.                                                                     *)
(***************************************************************************)
\* the digest request of the tapped session could not be sent
RequestNotSent ==
    /\ sess[1].auth = Some(Err(ConnectionError))
    /\ sess[1].cmds = << >>

\* C20: when the digest request could not be sent, or the reply to it is not
\* an OK response, the handshake has returned an error (the connection
\* error, or Not200), the session is rejected, and nothing of the route
\* handler has happened: no resolution, no bind, no send, no frame. The
\* handshake has returned Ok only on an OK reply with a value that decodes
\* to the expected digest.
C20_HandshakeFailsWithoutOkResponse ==
    /\ RequestNotSent =>
          /\ ~Tapped
          /\ sess[1].pc = "Rejected"
          /\ sess[1].result = Some(Err(ConnectionError))
          /\ NoActuation(1)
    /\ (Tapped /\ Reply.status # "Ok") =>
          /\ sess[1].auth = Some(Err(Not200))
          /\ sess[1].pc = "Rejected"
          /\ sess[1].result = Some(Err(Not200))
          /\ NoActuation(1)
    /\ Accepted =>
          /\ Tapped
          /\ Reply.status = "Ok"
          /\ IsSome(Reply.value)
          /\ hex_decode(Unwrap(Reply.value)).ok
          /\ hex_decode(Unwrap(Reply.value)).val = TappedDigest

C20_Witness ==
    /\ Tapped
    /\ Reply.status # "Ok"
    /\ sess[1].pc = "Rejected"

=============================================================================
